---- MODULE Spec2Model ----
(***************************************************************************)
(* Orchestrator of the notification system: the HTTP boundary              *)
(* (HandleNotificationRequest), the detached EnrichAndPublish task, the    *)
(* notification / event repositories, the redis cache and the broker.     *)
(***************************************************************************)
EXTENDS Integers, Sequences, FiniteSets, TLC

\* ------------------------------------------------------------------------
\* Bounds of the model
\* ------------------------------------------------------------------------
NumReqs == 2        \* HTTP requests issued
MaxTime == 1        \* the clock runs 0..MaxTime
MaxFaults == 1      \* infrastructure errors (datastore, cache, broker) injected
MaxFailureUpdates == 2  \* UpdateFailure calls on one row by a direct repository caller
NumWorkers == 2     \* retry workers that call GetFailedForRetry
NumRows == 2        \* rows of the table the retry workers read
MaxLimit == 2       \* the largest limit a caller passes

\* the longest time one attempt and the interval after it take, in the unit of
\* RetryMaxElapsed
MaxWait == 2

MaxStarts == 3      \* calls of Consumer.Start: the first and one per reconnect
MaxDeliveries == 2  \* deliveries the broker hands to the push consumer

\* ------------------------------------------------------------------------
\* Program constants
\* ------------------------------------------------------------------------
IdempotencyTTL == 2     \* 24*time.Hour of the idempotency entry, in clock ticks
StatusTTL == 2          \* 24*time.Hour of the status snapshot, in clock ticks
MaxRetries == 3         \* MaxRetries of a new notification
NullTime == -1          \* SQL NULL of a TIMESTAMPTZ column

\* backOff.MaxElapsedTime (30 seconds), counted in backoff intervals
RetryMaxElapsed == 3

Reqs == 1..NumReqs
NotifIDs == Reqs                      \* uuid.New() of the task spawned by request r
Times == 0..MaxTime

IdemKeys == {"k1", "k2"}              \* X-Idempotency-Key values sent by clients
CorrHeaders == {"", "c1", "c2"}       \* X-Correlation-ID values ("" = header absent)
Channels == {"email", "push"}         \* notification_type values that pass validation
Priorities == {4, 9}                  \* priority values sent by clients

\* a valid request: headers and the body members the orchestrator uses
Request(key, hdr, ch, p) == [key |-> key, hdr |-> hdr, channel |-> ch, priority |-> p]

\* the request of the runs that follow the fetches attempt by attempt
RetryRequests == {Request("k1", "c1", "email", 4)}

\* requests whose notification_type is a known channel, one the table knows
\* and the service does not, and one nobody knows
AnyChannelRequests == {Request("k1", "c1", c, 4) : c \in {"email", "sms", "fax"}}

\* a request with an ordinary key, and one whose caller has chosen the key of
\* the status snapshot of the first
KeyRequests == {Request("k1", "c1", "email", 4),
                Request("notification:status:c1", "c2", "email", 4)}

\* the requests of the concurrent system: every key and header, one body
SystemRequests == {Request(k, h, "email", 4) : k \in IdemKeys, h \in {"", "c1"}}

\* the requests of a single run: every header, channel and priority
RunRequests == {Request("k1", h, c, p) : h \in CorrHeaders, c \in Channels, p \in Priorities}

Statuses == {"pending", "enriching", "queued", "processing", "sent", "delivered",
             "failed", "cancelled"}

VARIABLES now, budget, hs, ts, cache, rows, events, published, workers, pager, health, consumer

vars == <<now, budget, hs, ts, cache, rows, events, published, workers, pager, health, consumer>>

\* ------------------------------------------------------------------------
\* Values
\* ------------------------------------------------------------------------
\* uuid.New() in the handler: a fresh id per request
GenCorrelationID(r) == "gen-" \o ToString(r)

\* uuid.New() for the CorrelationID column of the row built by the task
RowCorrelationID(id) == "row-" \o ToString(id)

NilUUID == "00000000"

\* uuid.Parse(correlationID), error ignored: the zero UUID unless the text is a UUID
ParseUUID(c) == IF c \in {GenCorrelationID(r) : r \in Reqs} \cup {"c1"} THEN c ELSE NilUUID

NotificationPriorityToString(p) ==
    CASE p = 1 -> "low"
      [] p = 2 -> "normal"
      [] p = 3 -> "high"
      [] p = 4 -> "urgent"
      [] OTHER -> "normal"

RoutingKey(channel) == "notification." \o channel

StatusKey(correlationID) == "notification:status:" \o correlationID

\* the snapshot document {status, error, updated_at}; updated_at is not kept
StatusJSON(status, errorMsg) == "{status:" \o status \o ",error:" \o errorMsg \o "}"

\* ------------------------------------------------------------------------
\* Cache (redis): key -> [val, exp]; an entry is gone once now >= exp
\* ------------------------------------------------------------------------
CacheGet(k) == IF k \in DOMAIN cache /\ now < cache[k].exp THEN cache[k].val ELSE ""

CacheSet(k, v, ttl) == [x \in DOMAIN cache \cup {k} |->
                          IF x = k THEN [val |-> v, exp |-> now + ttl] ELSE cache[x]]

\* (a write that stores the key where the correlation id belongs)
IdempotencyWriteKey(k, c) == CacheSet(k, k, IdempotencyTTL)

\* the idempotency write of the handler: redisClient.Set(key, correlationID, 24h)
IdempotencyWrite(k, c) == CacheSet(k, c, IdempotencyTTL)

Expire(c, t) == [x \in {k \in DOMAIN c : t < c[k].exp} |-> c[x]]

\* dtos.HTTPResponse{}: the zero value
ZeroResponse == [Success |-> FALSE, Data |-> "", Error |-> ""]

\* DoWithRetry before its first attempt: requests made, time spent by
\* backoff.Retry, the variable body the answers are decoded into, the status of
\* the last answer (0: none yet), the statuses answered before it, and whether
\* the retries ran out of time
IdleCall == [attempts |-> 0, elapsed |-> 0, body |-> ZeroResponse,
             last |-> 0, prior |-> {}, gaveUp |-> FALSE]

\* ------------------------------------------------------------------------
\* HTTP boundary
\* ------------------------------------------------------------------------
IdleH == [pc |-> "idle", key |-> "", corr |-> "", channel |-> "", priority |-> 0,
          resp |-> 0, respCorr |-> "", ansAt |-> NullTime]

\* a task: its position, the two buffered result channels, the failure it records
\* (userPrefs, template: the parsed data while enrichment goes on)
IdleT == [pc |-> "none", userChan |-> <<>>, templateChan |-> <<>>,
          userCall |-> IdleCall, templateCall |-> IdleCall,
          userPrefs |-> "", template |-> "", code |-> "", msg |-> "", stage |-> ""]

\* the answer to the last GET /health: status code 0 while none was asked
NoHealth == [code |-> 0, status |-> "", database |-> "", redis |-> ""]

\* a reader that pages through the notifications of a user: the limit it
\* passes, the cursor of its next call (NullTime: nil), the rows it has been given
IdlePager == [pc |-> "idle", limit |-> 0, cursor |-> NullTime, seen |-> <<>>]

\* a retry worker: idle, inside the statement of GetFailedForRetry ("query",
\* the selected rows locked), or back from it with the rows it was given
IdleWorker == [pc |-> "idle", got |-> <<>>]

Workers == 1..NumWorkers

Starts == 1..MaxStarts

\* no DeliveryStatus under push:delivery:<notification_id>
NoStatus == [total |-> 0, success |-> 0, failure |-> 0]

\* the push consumer before App.Start: config.Reconnect and config.FCM.Enabled,
\* whether ctx is cancelled, each call of Consumer.Start ("none", "wait":
\* blocked at <-c.done, "returned", "failed": Consume returned an error), the
\* goroutine each call has spawned ("none", "select", "send": blocked at
\* c.done <- true, "restart": inside the nested c.Start, "exited"), the
\* delivery channel each call got from Consume ("none", "open", "closed"), the
\* deliveries handled and the delivery status stored
IdleConsumer == [reconnect |-> FALSE, fcm |-> FALSE, ctxDone |-> FALSE,
                 start |-> [k \in Starts |-> "none"],
                 loop |-> [k \in Starts |-> "none"],
                 msgs |-> [k \in Starts |-> "none"],
                 deliveries |-> <<>>, status |-> NoStatus]

\* the task has returned: its locals are gone
Returned == [IdleT EXCEPT !.pc = "done"]

Respond(h, status, c) ==
    [h EXCEPT !.pc = "done", !.resp = status, !.respCorr = c,
              !.ansAt = IF status = 202 THEN now ELSE NullTime]

\* an infrastructure error (datastore, cache, broker down) strikes while the
\* budget of injected errors lasts
MayFail(ok) == ~ok => budget > 0

Charge(ok) == IF ok THEN budget ELSE budget - 1

\* (a handler that stores the idempotency entry before it validates)
HandleBadRequestStoresKey(r) ==
    /\ hs[r].pc = "idle"
    /\ hs' = [hs EXCEPT ![r] = Respond(@, 400, "")]
    /\ cache' = IdempotencyWrite("k1", "c1")
    /\ UNCHANGED <<now, budget, ts, rows, events, published, workers, pager, health, consumer>>

\* the request is rejected before the cache is touched: body does not decode or
\* validate, or X-Idempotency-Key is missing
HandleBadRequest(r) ==
    /\ hs[r].pc = "idle"
    /\ \E key \in IdemKeys \cup {""}, bodyOK \in BOOLEAN :
         /\ ~bodyOK \/ key = ""
         /\ hs' = [hs EXCEPT ![r] = Respond(@, 400, "")]
    /\ UNCHANGED <<now, budget, ts, cache, rows, events, published, workers, pager, health, consumer>>

\* (a handler that takes every read for a miss)
AfterGetMiss(h, val) == [h EXCEPT !.pc = "set"]

\* what the handler does with the value read from the cache
AfterGet(h, val) == IF val # "" THEN Respond(h, 200, val) ELSE [h EXCEPT !.pc = "set"]

\* steps 1-3 of the handler: decode, validate, headers, redis GET
HandleGet(r, requests) ==
    /\ hs[r].pc = "idle"
    /\ \E req \in requests, ok \in BOOLEAN :
         LET correlationID == IF req.hdr = "" THEN GenCorrelationID(r) ELSE req.hdr
             h == [hs[r] EXCEPT !.key = req.key, !.corr = correlationID,
                                !.channel = req.channel, !.priority = req.priority]
         IN  /\ MayFail(ok)
             /\ budget' = Charge(ok)
             /\ hs' = [hs EXCEPT ![r] = IF ok THEN AfterGet(h, CacheGet(req.key))
                                              ELSE Respond(h, 500, "")]
    /\ UNCHANGED <<now, ts, cache, rows, events, published, workers, pager, health, consumer>>

\* (a handler that starts the task although the idempotency write failed)
HandleSetStartsAnyway(r) ==
    /\ hs[r].pc = "set"
    /\ \E ok \in BOOLEAN :
         /\ MayFail(ok)
         /\ budget' = Charge(ok)
         /\ cache' = IF ok THEN IdempotencyWrite(hs[r].key, hs[r].corr) ELSE cache
         /\ ts' = [ts EXCEPT ![r] = [IdleT EXCEPT !.pc = "insert"]]
         /\ hs' = [hs EXCEPT ![r] = IF ok THEN Respond(@, 202, hs[r].corr)
                                          ELSE Respond(@, 500, "")]
    /\ UNCHANGED <<now, rows, events, published, workers, pager, health, consumer>>

\* (a handler that answers with the state of the run instead of the
\* correlation id)
HandleSetAnswersOutcome(r) ==
    /\ hs[r].pc = "set"
    /\ budget' = budget
    /\ cache' = IdempotencyWrite(hs[r].key, hs[r].corr)
    /\ ts' = [ts EXCEPT ![r] = [IdleT EXCEPT !.pc = "insert"]]
    /\ hs' = [hs EXCEPT ![r] = Respond(@, 202, ts[r].pc)]
    /\ UNCHANGED <<now, rows, events, published, workers, pager, health, consumer>>

\* steps 4-6: redis SET, go EnrichAndPublish, 202
HandleSet(r) ==
    /\ hs[r].pc = "set"
    /\ \E ok \in BOOLEAN :
         /\ MayFail(ok)
         /\ budget' = Charge(ok)
         /\ IF ok
            THEN /\ cache' = IdempotencyWrite(hs[r].key, hs[r].corr)
                 /\ ts' = [ts EXCEPT ![r] = [IdleT EXCEPT !.pc = "insert"]]
                 /\ hs' = [hs EXCEPT ![r] = Respond(@, 202, hs[r].corr)]
            ELSE /\ hs' = [hs EXCEPT ![r] = Respond(@, 500, "")]
                 /\ UNCHANGED <<cache, ts>>
    /\ UNCHANGED <<now, rows, events, published, workers, pager, health, consumer>>

\* ------------------------------------------------------------------------
\* Datastore: notifications (rows), notification_events (events)
\* ------------------------------------------------------------------------
\* chk_status of the notifications table
ChkStatus == {"pending", "enriching", "queued", "processing", "sent", "failed", "cancelled"}

NullPayload == "NULL"

\* the models.Notification EnrichAndPublish builds, CreatedAt = time.Now()
NewNotification(id, h, t) ==
    [id |-> id, idempotency_key |-> h.key, correlation_id |-> RowCorrelationID(id),
     channel |-> h.channel, status |-> "pending",
     priority |-> NotificationPriorityToString(h.priority),
     enriched_payload |-> NullPayload,
     enriched_at |-> NullTime, queued_at |-> NullTime, sent_at |-> NullTime,
     delivered_at |-> NullTime, failed_at |-> NullTime,
     error_code |-> "NULL", error_message |-> "NULL",
     retry_count |-> 0, max_retries |-> MaxRetries, created_at |-> t, deleted_at |-> NullTime]

\* pk_notifications, idx_notifications_correlation, idx_notifications_idempotency:
\* every unique index of the partitioned table carries created_at
UniqueViolation(db, n) ==
    \E x \in DOMAIN db :
        \/ db[x].id = n.id /\ db[x].created_at = n.created_at
        \/ db[x].correlation_id = n.correlation_id /\ db[x].created_at = n.created_at
        \/ db[x].idempotency_key = n.idempotency_key /\ db[x].created_at = n.created_at

\* chk_channel of the notifications table
ChkChannel == {"email", "push", "sms", "in_app"}

\* CreateNotification: a plain INSERT; err # nil exactly when the statement fails
CreateNotificationOK(db, n, dbUp) ==
    dbUp /\ ~UniqueViolation(db, n) /\ n.channel \in ChkChannel

InsertRow(db, n) == [x \in DOMAIN db \cup {n.id} |-> IF x = n.id THEN n ELSE db[x]]

\* (a row test that does not look at deleted_at)
LiveOrDeleted(db, id) == id \in DOMAIN db

\* WHERE id = $n AND deleted_at IS NULL
Live(db, id) == id \in DOMAIN db /\ db[id].deleted_at = NullTime

\* (the columns of enriching and queued exchanged)
TimestampColumnSwapped(status) ==
    CASE status = "enriching" -> "queued_at"
      [] status = "queued"    -> "enriched_at"
      [] status = "sent"      -> "sent_at"
      [] status = "delivered" -> "delivered_at"
      [] status = "failed"    -> "failed_at"
      [] OTHER                -> ""

\* the timestamp column UpdateStatusWithTimestamp writes for a status
TimestampColumn(status) ==
    CASE status = "enriching" -> "enriched_at"
      [] status = "queued"    -> "queued_at"
      [] status = "sent"      -> "sent_at"
      [] status = "delivered" -> "delivered_at"
      [] status = "failed"    -> "failed_at"
      [] OTHER                -> ""

\* (NOW() written over the stored value)
CoalesceOverwrite(x, t) == t

\* COALESCE(col, NOW())
Coalesce(x, t) == IF x # NullTime THEN x ELSE t

SetTimestamp(row, col, t) ==
    CASE col = "enriched_at"  -> [row EXCEPT !.enriched_at = Coalesce(@, t)]
      [] col = "queued_at"    -> [row EXCEPT !.queued_at = Coalesce(@, t)]
      [] col = "sent_at"      -> [row EXCEPT !.sent_at = Coalesce(@, t)]
      [] col = "delivered_at" -> [row EXCEPT !.delivered_at = Coalesce(@, t)]
      [] col = "failed_at"    -> [row EXCEPT !.failed_at = Coalesce(@, t)]
      [] OTHER                -> row

\* UPDATE notifications SET status = $1, <col> = COALESCE(<col>, NOW())
\* WHERE id = $2 AND deleted_at IS NULL
UpdateStatusOK(db, id, status, dbUp) == dbUp /\ Live(db, id) /\ status \in ChkStatus

UpdateStatusWithTimestamp(db, id, status, t, dbUp) ==
    IF UpdateStatusOK(db, id, status, dbUp)
    THEN [db EXCEPT ![id] = SetTimestamp([@ EXCEPT !.status = status], TimestampColumn(status), t)]
    ELSE db

UpdateStatus(db, id, status, t, dbUp) == UpdateStatusWithTimestamp(db, id, status, t, dbUp)

UpdateEnrichedPayloadOK(db, id, dbUp) == dbUp /\ Live(db, id)

UpdateEnrichedPayload(db, id, payload, dbUp) ==
    IF UpdateEnrichedPayloadOK(db, id, dbUp)
    THEN [db EXCEPT ![id].enriched_payload = payload]
    ELSE db

\* (a failure update that writes nothing)
UpdateFailureNothing(db, id, errorCode, errorMsg, t, dbUp) == db

\* UPDATE notifications SET status = 'failed', error_code, error_message,
\* retry_count = retry_count + 1, failed_at = COALESCE(failed_at, NOW())
UpdateFailure(db, id, errorCode, errorMsg, t, dbUp) ==
    IF dbUp /\ Live(db, id)
    THEN [db EXCEPT ![id] = [@ EXCEPT !.status = "failed", !.error_code = errorCode,
                                      !.error_message = errorMsg,
                                      !.retry_count = @ + 1,
                                      !.failed_at = Coalesce(@, t)]]
    ELSE db

\* UPDATE notifications SET deleted_at = NOW() WHERE id = $1 AND deleted_at IS NULL
SoftDelete(db, id, t, dbUp) ==
    IF dbUp /\ Live(db, id) THEN [db EXCEPT ![id].deleted_at = t] ELSE db

\* err == nil of UpdateFailure and of SoftDelete: the statement ran and
\* RowsAffected() is not 0
UpdateFailureOK(db, id, dbUp) == dbUp /\ Live(db, id)

SoftDeleteOK(db, id, dbUp) == dbUp /\ Live(db, id)

\* the rows GetByID can return (none: "notification not found")
GetByID(db, id) == {x \in DOMAIN db : db[x].id = id /\ Live(db, x)}

GetByCorrelationID(db, correlationID) ==
    {x \in DOMAIN db : db[x].correlation_id = correlationID /\ Live(db, x)}

\* WHERE idempotency_key = $1 AND created_at > NOW() - INTERVAL '24 hours'
\* AND deleted_at IS NULL ORDER BY created_at DESC LIMIT 1
GetByIdempotencyKey(db, key, t) ==
    LET found == {x \in DOMAIN db : /\ db[x].idempotency_key = key
                                    /\ db[x].created_at > t - IdempotencyTTL
                                    /\ Live(db, x)}
    IN  {x \in found : \A y \in found : db[y].created_at <= db[x].created_at}

\* EventRepository.CreateEventSimple: one INSERT into notification_events
CreateEventSimple(ev, id, correlationUUID, eventType, stage, dbUp) ==
    IF dbUp
    THEN [ev EXCEPT ![id] = Append(@, [event_type |-> eventType,
                                        correlation_id |-> correlationUUID, stage |-> stage])]
    ELSE ev

\* storeNotificationStatus: redis SET of the snapshot, an error is only logged
StoreNotificationStatus(correlationID, status, errorMsg, up) ==
    IF up THEN CacheSet(StatusKey(correlationID), StatusJSON(status, errorMsg), StatusTTL)
    ELSE cache

\* publishToQueue: one persistent message on the exchange
EnrichedNotification(id, h, userPrefs, template) ==
    [notification_id |-> id, correlation_id |-> h.corr, idempotency_key |-> h.key,
     channel |-> h.channel, priority |-> NotificationPriorityToString(h.priority),
     user_preferences |-> userPrefs, template |-> template,
     routing_key |-> RoutingKey(h.channel)]

\* ------------------------------------------------------------------------
\* Remote services: what DoWithRetry sends on the result channel
\* ------------------------------------------------------------------------
UserResponses ==
    { [Success |-> TRUE,  Data |-> "optin",     Error |-> ""],
      [Success |-> TRUE,  Data |-> "optout",    Error |-> ""],
      [Success |-> TRUE,  Data |-> "malformed", Error |-> ""],
      [Success |-> FALSE, Data |-> "",          Error |-> "client error: 404"],
      ZeroResponse }

TemplateResponses ==
    { [Success |-> TRUE,  Data |-> "tmpl",      Error |-> ""],
      [Success |-> TRUE,  Data |-> "malformed", Error |-> ""],
      [Success |-> FALSE, Data |-> "",          Error |-> "client error: 404"],
      ZeroResponse }

\* json.Unmarshal of the Data member into the typed struct
ParsesOK(data) == data # "malformed"

EnrichedPayload(userData, templateData) ==
    "{user_preferences:" \o userData \o ",template:" \o templateData \o "}"

\* the checks of EnrichAndPublish between the join and the payload write:
\* the failure to record, or code "" when enrichment goes on
JoinOutcome(user, template) ==
    IF user = ZeroResponse \/ ~user.Success
    THEN [code |-> "USER_FETCH_ERROR", stage |-> "user_fetch",
          msg |-> IF user = ZeroResponse THEN "no user response received" ELSE user.Error]
    ELSE IF template = ZeroResponse \/ ~template.Success
    THEN [code |-> "TEMPLATE_FETCH_ERROR", stage |-> "template_fetch",
          msg |-> IF template = ZeroResponse THEN "no template response received"
                  ELSE template.Error]
    ELSE IF ~ParsesOK(user.Data)
    THEN [code |-> "PARSE_ERROR", stage |-> "user_parse", msg |-> "Invalid user data format"]
    ELSE IF ~ParsesOK(template.Data)
    THEN [code |-> "PARSE_ERROR", stage |-> "template_parse", msg |-> "Invalid template format"]
    ELSE [code |-> "", stage |-> "", msg |-> ""]

\* ------------------------------------------------------------------------
\* EnrichAndPublish, one action per call that leaves the task
\* ------------------------------------------------------------------------
At(r, pc) == ts[r].pc = pc

Goto(r, pc) == [ts EXCEPT ![r] = IF pc = "done" THEN Returned ELSE [@ EXCEPT !.pc = pc]]

\* where the task goes after CreateNotification
AfterInsert(ok) == IF ok THEN "created_event" ELSE "insert_failed_status"

\* (a task that goes on when the payload write failed)
AfterPayloadIgnoreErr(ok) == "enriched_event"

\* where the task goes after UpdateEnrichedPayload
AfterPayload(ok) == IF ok THEN "enriched_event" ELSE "done"

\* (a task that goes on to queued when the publish failed)
AfterPublishIgnoreErr(ok) == "queued_update"

\* (the error test of the publish inverted)
AfterPublishInverted(ok) == IF ok THEN "fail_update" ELSE "queued_update"

\* where the task goes after publishToQueue
AfterPublish(ok) == IF ok THEN "queued_update" ELSE "fail_update"

\* (a task that goes on with the enrichment after it has recorded a failure)
AfterFailureGoesOn == "payload"

\* where the task goes after the failure is recorded: it returns
AfterFailure == "done"

\* o.notifRepo.CreateNotification(ctx, notification)
TaskInsert(r) ==
    /\ At(r, "insert")
    /\ \E dbUp \in BOOLEAN :
         LET n == NewNotification(r, hs[r], now)
             ok == CreateNotificationOK(rows, n, dbUp)
         IN  /\ MayFail(dbUp)
             /\ budget' = Charge(dbUp)
             /\ rows' = IF ok THEN InsertRow(rows, n) ELSE rows
             /\ ts' = [ts EXCEPT ![r].pc = AfterInsert(ok),
                                 ![r].msg = IF ok THEN "" ELSE "failed to create notification"]
    /\ UNCHANGED <<now, hs, cache, events, published, workers, pager, health, consumer>>

\* the insert failed: storeNotificationStatus(correlationID, "failed", err), return
TaskInsertFailedStatus(r) ==
    /\ At(r, "insert_failed_status")
    /\ \E up \in BOOLEAN :
         /\ MayFail(up)
         /\ budget' = Charge(up)
         /\ cache' = StoreNotificationStatus(hs[r].corr, "failed", ts[r].msg, up)
    /\ ts' = Goto(r, "done")
    /\ UNCHANGED <<now, hs, rows, events, published, workers, pager, health, consumer>>

\* CreateEventSimple(created)
TaskCreatedEvent(r) ==
    /\ At(r, "created_event")
    /\ \E dbUp \in BOOLEAN :
         /\ MayFail(dbUp)
         /\ budget' = Charge(dbUp)
         /\ events' = CreateEventSimple(events, r, ParseUUID(hs[r].corr), "created", "", dbUp)
    /\ ts' = Goto(r, "enriching")
    /\ UNCHANGED <<now, hs, cache, rows, published, workers, pager, health, consumer>>

\* UpdateStatus(enriching), its error ignored
TaskEnriching(r) ==
    /\ At(r, "enriching")
    /\ \E dbUp \in BOOLEAN :
         /\ MayFail(dbUp)
         /\ budget' = Charge(dbUp)
         /\ rows' = UpdateStatus(rows, r, "enriching", now, dbUp)
    /\ ts' = Goto(r, "fetch")
    /\ UNCHANGED <<now, hs, cache, events, published, workers, pager, health, consumer>>

\* goroutine FetchUserPreference: DoWithRetry sends one response, then wg.Done
FetchUser(r) ==
    /\ At(r, "fetch")
    /\ ts[r].userChan = <<>>
    /\ \E resp \in UserResponses : ts' = [ts EXCEPT ![r].userChan = <<resp>>]
    /\ UNCHANGED <<now, budget, hs, cache, rows, events, published, workers, pager, health, consumer>>

\* goroutine FetchTemplateById
FetchTemplate(r) ==
    /\ At(r, "fetch")
    /\ ts[r].templateChan = <<>>
    /\ \E resp \in TemplateResponses : ts' = [ts EXCEPT ![r].templateChan = <<resp>>]
    /\ UNCHANGED <<now, budget, hs, cache, rows, events, published, workers, pager, health, consumer>>

\* (a join that goes on as soon as one fetch has answered)
JoinReadyEither(t) == t.userChan # <<>> \/ t.templateChan # <<>>

\* wg.Wait() after wg.Add(2): both fetch goroutines have called wg.Done
JoinReady(t) == t.userChan # <<>> /\ t.templateChan # <<>>

\* <-ch on a channel closed after the wait: the buffered response, or the zero
\* value when nothing was sent
Recv(ch) == IF ch = <<>> THEN ZeroResponse ELSE ch[1]

\* wg.Wait, the reads of both channels, and the checks up to the first repository call
TaskJoin(r) ==
    /\ At(r, "fetch")
    /\ JoinReady(ts[r])
    /\ LET out == JoinOutcome(Recv(ts[r].userChan), Recv(ts[r].templateChan))
           ok == out.code = ""
       IN  ts' = [ts EXCEPT ![r] = [IdleT EXCEPT
                     !.pc = IF ok THEN "payload" ELSE "fail_update",
                     !.userPrefs = IF ok THEN Recv(ts[r].userChan).Data ELSE "",
                     !.template = IF ok THEN Recv(ts[r].templateChan).Data ELSE "",
                     !.code = out.code, !.msg = out.msg, !.stage = out.stage]]
    /\ UNCHANGED <<now, budget, hs, cache, rows, events, published, workers, pager, health, consumer>>

\* UpdateFailure(code, msg), its error ignored
TaskFailUpdate(r) ==
    /\ At(r, "fail_update")
    /\ \E dbUp \in BOOLEAN :
         /\ MayFail(dbUp)
         /\ budget' = Charge(dbUp)
         /\ rows' = UpdateFailure(rows, r, ts[r].code, ts[r].msg, now, dbUp)
    /\ ts' = Goto(r, "fail_event")
    /\ UNCHANGED <<now, hs, cache, events, published, workers, pager, health, consumer>>

\* CreateEventSimple(failed, stage)
TaskFailEvent(r) ==
    /\ At(r, "fail_event")
    /\ \E dbUp \in BOOLEAN :
         /\ MayFail(dbUp)
         /\ budget' = Charge(dbUp)
         /\ events' = CreateEventSimple(events, r, ParseUUID(hs[r].corr), "failed",
                                        ts[r].stage, dbUp)
    /\ ts' = Goto(r, "fail_status")
    /\ UNCHANGED <<now, hs, cache, rows, published, workers, pager, health, consumer>>

\* storeNotificationStatus(failed), return
TaskFailStatus(r) ==
    /\ At(r, "fail_status")
    /\ \E up \in BOOLEAN :
         /\ MayFail(up)
         /\ budget' = Charge(up)
         /\ cache' = StoreNotificationStatus(hs[r].corr, "failed", ts[r].msg, up)
    /\ ts' = Goto(r, AfterFailure)
    /\ UNCHANGED <<now, hs, rows, events, published, workers, pager, health, consumer>>

\* UpdateEnrichedPayload; on error the task returns
TaskPayload(r) ==
    /\ At(r, "payload")
    /\ \E dbUp \in BOOLEAN :
         LET payload == EnrichedPayload(ts[r].userPrefs, ts[r].template)
         IN  /\ MayFail(dbUp)
             /\ budget' = Charge(dbUp)
             /\ rows' = UpdateEnrichedPayload(rows, r, payload, dbUp)
             /\ ts' = Goto(r, AfterPayload(UpdateEnrichedPayloadOK(rows, r, dbUp)))
    /\ UNCHANGED <<now, hs, cache, events, published, workers, pager, health, consumer>>

\* CreateEventSimple(enriched)
TaskEnrichedEvent(r) ==
    /\ At(r, "enriched_event")
    /\ \E dbUp \in BOOLEAN :
         /\ MayFail(dbUp)
         /\ budget' = Charge(dbUp)
         /\ events' = CreateEventSimple(events, r, ParseUUID(hs[r].corr), "enriched", "", dbUp)
    /\ ts' = Goto(r, "publish")
    /\ UNCHANGED <<now, hs, cache, rows, published, workers, pager, health, consumer>>

\* publishToQueue; on error the failure QUEUE_ERROR is recorded
TaskPublish(r) ==
    /\ At(r, "publish")
    /\ \E up \in BOOLEAN :
         /\ MayFail(up)
         /\ budget' = Charge(up)
         /\ published' = IF up THEN [published EXCEPT ![r] = Append(@, EnrichedNotification(r, hs[r], ts[r].userPrefs, ts[r].template))]
                         ELSE published
         /\ ts' = [ts EXCEPT ![r] = [IdleT EXCEPT
                       !.pc = AfterPublish(up),
                       !.code = IF up THEN "" ELSE "QUEUE_ERROR",
                       !.msg = IF up THEN "" ELSE "failed to publish to queue",
                       !.stage = IF up THEN "" ELSE "queue_publish"]]
    /\ UNCHANGED <<now, hs, cache, rows, events, workers, pager, health, consumer>>

\* UpdateStatus(queued), its error ignored
TaskQueuedUpdate(r) ==
    /\ At(r, "queued_update")
    /\ \E dbUp \in BOOLEAN :
         /\ MayFail(dbUp)
         /\ budget' = Charge(dbUp)
         /\ rows' = UpdateStatus(rows, r, "queued", now, dbUp)
    /\ ts' = Goto(r, "queued_event")
    /\ UNCHANGED <<now, hs, cache, events, published, workers, pager, health, consumer>>

\* CreateEventSimple(queued)
TaskQueuedEvent(r) ==
    /\ At(r, "queued_event")
    /\ \E dbUp \in BOOLEAN :
         /\ MayFail(dbUp)
         /\ budget' = Charge(dbUp)
         /\ events' = CreateEventSimple(events, r, ParseUUID(hs[r].corr), "queued", "", dbUp)
    /\ ts' = Goto(r, "queued_status")
    /\ UNCHANGED <<now, hs, cache, rows, published, workers, pager, health, consumer>>

\* storeNotificationStatus(queued), return
TaskQueuedStatus(r) ==
    /\ At(r, "queued_status")
    /\ \E up \in BOOLEAN :
         /\ MayFail(up)
         /\ budget' = Charge(up)
         /\ cache' = StoreNotificationStatus(hs[r].corr, "queued", "", up)
    /\ ts' = Goto(r, "done")
    /\ UNCHANGED <<now, hs, rows, events, published, workers, pager, health, consumer>>

\* the statements of EnrichAndPublish itself, the fetch goroutines apart
TaskCalls(r) ==
    \/ TaskInsert(r)
    \/ TaskInsertFailedStatus(r)
    \/ TaskCreatedEvent(r)
    \/ TaskEnriching(r)
    \/ TaskJoin(r)
    \/ TaskFailUpdate(r)
    \/ TaskFailEvent(r)
    \/ TaskFailStatus(r)
    \/ TaskPayload(r)
    \/ TaskEnrichedEvent(r)
    \/ TaskPublish(r)
    \/ TaskQueuedUpdate(r)
    \/ TaskQueuedEvent(r)
    \/ TaskQueuedStatus(r)

TaskStep(r) ==
    \/ FetchUser(r)
    \/ FetchTemplate(r)
    \/ TaskCalls(r)

\* time passes; expired cache entries disappear
Tick ==
    /\ now < MaxTime
    /\ now' = now + 1
    /\ cache' = Expire(cache, now + 1)
    /\ UNCHANGED <<budget, hs, ts, rows, events, published, workers, pager, health, consumer>>

Init ==
    /\ now = 0
    /\ budget = 0
    /\ hs = [r \in Reqs |-> IdleH]
    /\ ts = [r \in Reqs |-> IdleT]
    /\ cache = <<>>
    /\ rows = <<>>
    /\ events = [id \in NotifIDs |-> <<>>]
    /\ published = [id \in NotifIDs |-> <<>>]
    /\ workers = [w \in Workers |-> IdleWorker]
    /\ pager = IdlePager
    /\ health = NoHealth
    /\ consumer = IdleConsumer

Next ==
    \/ \E r \in Reqs : HandleBadRequest(r)
    \/ \E r \in Reqs : HandleGet(r, SystemRequests)
    \/ \E r \in Reqs : HandleSet(r)
    \/ \E r \in Reqs : TaskStep(r)
    \/ Tick

Spec == Init /\ [][Next]_vars

\* ------------------------------------------------------------------------
\* One request and its EnrichAndPublish run, with infrastructure errors
\* ------------------------------------------------------------------------
RunInit ==
    /\ now = 0
    /\ budget = MaxFaults
    /\ hs = [r \in Reqs |-> IdleH]
    /\ ts = [r \in Reqs |-> IdleT]
    /\ cache = <<>>
    /\ rows = <<>>
    /\ events = [id \in NotifIDs |-> <<>>]
    /\ published = [id \in NotifIDs |-> <<>>]
    /\ workers = [w \in Workers |-> IdleWorker]
    /\ pager = IdlePager
    /\ health = NoHealth
    /\ consumer = IdleConsumer

RunNext ==
    \/ HandleBadRequest(1)
    \/ HandleGet(1, RunRequests)
    \/ HandleSet(1)
    \/ TaskStep(1)
    \/ Tick

RunSpec == RunInit /\ [][RunNext]_vars

\* ------------------------------------------------------------------------
\* The notification repository under an arbitrary caller: any operation, any
\* argument, in any order, on the row of one notification
\* ------------------------------------------------------------------------
ErrorCodes == {"USER_FETCH_ERROR", "TEMPLATE_FETCH_ERROR", "PARSE_ERROR", "QUEUE_ERROR"}

RepoCreate(id) ==
    /\ id \notin DOMAIN rows
    /\ \E k \in IdemKeys, c \in Channels :
         LET n == NewNotification(id, [key |-> k, channel |-> c, priority |-> 4], now)
         IN  /\ CreateNotificationOK(rows, n, TRUE)
             /\ rows' = InsertRow(rows, n)
    /\ UNCHANGED <<now, budget, hs, ts, cache, events, published, workers, pager, health, consumer>>

RepoUpdateStatus(id) ==
    /\ \E status \in Statuses : rows' = UpdateStatus(rows, id, status, now, TRUE)
    /\ UNCHANGED <<now, budget, hs, ts, cache, events, published, workers, pager, health, consumer>>

RepoUpdateFailure(id) ==
    /\ id \in DOMAIN rows
    /\ rows[id].retry_count < MaxFailureUpdates
    /\ \E code \in ErrorCodes : rows' = UpdateFailure(rows, id, code, "error", now, TRUE)
    /\ UNCHANGED <<now, budget, hs, ts, cache, events, published, workers, pager, health, consumer>>

RepoUpdateEnrichedPayload(id) ==
    /\ rows' = UpdateEnrichedPayload(rows, id, EnrichedPayload("optin", "tmpl"), TRUE)
    /\ UNCHANGED <<now, budget, hs, ts, cache, events, published, workers, pager, health, consumer>>

RepoSoftDelete(id) ==
    /\ rows' = SoftDelete(rows, id, now, TRUE)
    /\ UNCHANGED <<now, budget, hs, ts, cache, events, published, workers, pager, health, consumer>>

RepoNext ==
    \/ RepoCreate(1)
    \/ RepoUpdateStatus(1)
    \/ RepoUpdateFailure(1)
    \/ RepoUpdateEnrichedPayload(1)
    \/ RepoSoftDelete(1)
    \/ Tick

RepoSpec == Init /\ [][RepoNext]_vars

\* the goroutine of a spawned task is scheduled until it returns
FairRunSpec == RunSpec /\ WF_vars(TaskStep(1))

\* ------------------------------------------------------------------------
\* The fetches attempt by attempt: DoWithRetry under backoff.Retry
\* ------------------------------------------------------------------------
\* statuses a remote service answers with
HTTPStatuses == {200, 404, 503}

\* what a body decodes to: "ok" is {success:true, data:...}, "ko" is
\* {success:false, data:"stale", error:"unavailable"}, "garbage" is no JSON
Documents == {"ok", "ko", "garbage"}

Clients == {"user", "template"}

DataOf(client) == IF client = "user" THEN "optin" ELSE "tmpl"

\* (a decoder that leaves alone the members an earlier answer has set)
DecodeKeepsOld(body, doc, client) ==
    IF body # ZeroResponse \/ doc = "garbage" THEN body
    ELSE IF doc = "ok" THEN [body EXCEPT !.Success = TRUE, !.Data = DataOf(client)]
    ELSE [body EXCEPT !.Success = FALSE, !.Data = "stale", !.Error = "unavailable"]

\* json.NewDecoder(resp.Body).Decode(&body): the members present in the document
\* overwrite those of body, which is one variable for all attempts
Decode(body, doc, client) ==
    IF doc = "ok" THEN [body EXCEPT !.Success = TRUE, !.Data = DataOf(client)]
    ELSE IF doc = "ko"
    THEN [body EXCEPT !.Success = FALSE, !.Data = "stale", !.Error = "unavailable"]
    ELSE body

\* resp.StatusCode >= 400 && resp.StatusCode < 500
IsClientError(status) == status >= 400 /\ status < 500

\* the closure operation of DoWithRetry, one request: the body is decoded
\* first, then the status is tested
Operation(body, status, doc, client) ==
    IF doc = "garbage"
    THEN [body |-> body, err |-> "decode error", permanent |-> FALSE]
    ELSE IF IsClientError(status)
    THEN [body |-> Decode(body, doc, client),
          err |-> "client error: " \o ToString(status), permanent |-> TRUE]
    ELSE IF status # 200
    THEN [body |-> Decode(body, doc, client),
          err |-> "server error: " \o ToString(status), permanent |-> FALSE]
    ELSE [body |-> Decode(body, doc, client), err |-> "", permanent |-> FALSE]

\* backoff.Retry after a failed attempt: a permanent error ends the loop, and so
\* does a next interval that would pass MaxElapsedTime
RetryStops(permanent, elapsed, next) == permanent \/ elapsed + next > RetryMaxElapsed

CallOf(t, client) == IF client = "user" THEN t.userCall ELSE t.templateCall

ChanOf(t, client) == IF client = "user" THEN t.userChan ELSE t.templateChan

\* (a DoWithRetry that returns without a send when the retries have run out)
DoWithRetrySilentGiveUp(t, client, status, doc, next) ==
    LET c == CallOf(t, client)
        op == Operation(c.body, status, doc, client)
        stop == op.err # "" /\ RetryStops(op.permanent, c.elapsed, next)
        goesOn == op.err # "" /\ ~stop
        call == [attempts |-> c.attempts + 1,
                 elapsed |-> IF goesOn THEN c.elapsed + next ELSE 0,
                 body |-> IF goesOn THEN op.body ELSE ZeroResponse,
                 last |-> status,
                 prior |-> IF c.attempts = 0 THEN {} ELSE c.prior \cup {c.last},
                 gaveUp |-> stop /\ ~op.permanent]
        chan == IF op.err = "" THEN <<op.body>>
                ELSE IF stop /\ op.permanent
                THEN <<[Success |-> FALSE, Data |-> "", Error |-> op.err]>>
                ELSE <<>>
    IN  IF client = "user"
        THEN [t EXCEPT !.userCall = call, !.userChan = chan]
        ELSE [t EXCEPT !.templateCall = call, !.templateChan = chan]

\* one attempt of DoWithRetry and what backoff.Retry makes of it; next is the
\* time the attempt and the following interval take; the locals are gone once
\* the result is sent
DoWithRetry(t, client, status, doc, next) ==
    LET c == CallOf(t, client)
        op == Operation(c.body, status, doc, client)
        stop == op.err # "" /\ RetryStops(op.permanent, c.elapsed, next)
        goesOn == op.err # "" /\ ~stop
        call == [attempts |-> c.attempts + 1,
                 elapsed |-> IF goesOn THEN c.elapsed + next ELSE 0,
                 body |-> IF goesOn THEN op.body ELSE ZeroResponse,
                 last |-> status,
                 prior |-> IF c.attempts = 0 THEN {} ELSE c.prior \cup {c.last},
                 gaveUp |-> stop /\ ~op.permanent]
        chan == IF op.err = "" THEN <<op.body>>
                ELSE IF stop THEN <<[Success |-> FALSE, Data |-> "", Error |-> op.err]>>
                ELSE <<>>
    IN  IF client = "user"
        THEN [t EXCEPT !.userCall = call, !.userChan = chan]
        ELSE [t EXCEPT !.templateCall = call, !.templateChan = chan]

\* a fetch goroutine makes one request and takes the answer
Attempt(r, client) ==
    /\ At(r, "fetch")
    /\ ChanOf(ts[r], client) = <<>>
    /\ \E status \in HTTPStatuses, doc \in Documents, next \in 1..MaxWait :
         ts' = [ts EXCEPT ![r] = DoWithRetry(@, client, status, doc, next)]
    /\ UNCHANGED <<now, budget, hs, cache, rows, events, published, workers, pager, health, consumer>>

RetryTaskStep(r) ==
    \/ Attempt(r, "user")
    \/ Attempt(r, "template")
    \/ TaskCalls(r)

\* (the clock of the day stands still: a run is over within a minute)
RetryNext ==
    \/ HandleBadRequest(1)
    \/ HandleGet(1, RetryRequests)
    \/ HandleSet(1)
    \/ RetryTaskStep(1)

\* one request and its run, the remote services answering as they like
RetrySpec == RunInit /\ [][RetryNext]_vars

FairRetrySpec == RetrySpec /\ WF_vars(RetryTaskStep(1))

\* ------------------------------------------------------------------------
\* Retry workers: GetFailedForRetry under concurrent callers
\* ------------------------------------------------------------------------
RetryRows == 1..NumRows

\* priority is a VARCHAR(10) column: ORDER BY compares the texts, and
\* 'high' < 'low' < 'normal' < 'urgent'
VarcharRank(priority) ==
    CASE priority = "high"   -> 1
      [] priority = "low"    -> 2
      [] priority = "normal" -> 3
      [] priority = "urgent" -> 4

\* ORDER BY priority DESC, created_at ASC: row a comes strictly before row b
OrderedBefore(a, b) ==
    \/ VarcharRank(a.priority) > VarcharRank(b.priority)
    \/ a.priority = b.priority /\ a.created_at < b.created_at

\* the rows locked by the statements in flight
Locked == {id \in RetryRows : \E w \in Workers : workers[w].pc = "query" /\
                                  \E i \in 1..Len(workers[w].got) : workers[w].got[i] = id}

\* the WHERE clause of GetFailedForRetry, and SKIP LOCKED
Retryable(db, locked, t) ==
    {id \in DOMAIN db : /\ db[id].status = "failed"
                        /\ db[id].retry_count < db[id].max_retries
                        /\ db[id].deleted_at = NullTime
                        /\ db[id].failed_at # NullTime
                        /\ db[id].failed_at > t - IdempotencyTTL
                        /\ id \notin locked}

\* the results the statement of GetFailedForRetry can return: the first limit
\* rows of the order among those that match and are not locked (rows equal in
\* both sort keys come in either order)
GetFailedForRetry(db, locked, limit, t) ==
    LET E == Retryable(db, locked, t)
        k == IF limit < Cardinality(E) THEN limit ELSE Cardinality(E)
    IN  {s \in [1..k -> E] :
            /\ \A i, j \in 1..k : i < j => s[i] # s[j] /\ ~OrderedBefore(db[s[j]], db[s[i]])
            /\ \A x \in E : (\A i \in 1..k : s[i] # x)
                               => \A i \in 1..k : ~OrderedBefore(db[x], db[s[i]])}

\* a notification is stored, with any priority
CreateRow(id) ==
    /\ id \notin DOMAIN rows
    /\ \E k \in IdemKeys, p \in 1..4 :
         LET n == NewNotification(id, [key |-> k, channel |-> "email", priority |-> p], now)
         IN  /\ CreateNotificationOK(rows, n, TRUE)
             /\ rows' = InsertRow(rows, n)
    /\ UNCHANGED <<now, budget, hs, ts, cache, events, published, workers, pager, health, consumer>>

\* an attempt on the notification fails: UpdateFailure
FailRow(id) ==
    /\ Live(rows, id)
    /\ id \notin Locked
    /\ rows[id].status # "failed"
    /\ rows[id].retry_count < MaxRetries
    /\ rows' = UpdateFailure(rows, id, "QUEUE_ERROR", "error", now, TRUE)
    /\ UNCHANGED <<now, budget, hs, ts, cache, events, published, workers, pager, health, consumer>>

DeleteRow(id) ==
    /\ Live(rows, id)
    /\ id \notin Locked
    /\ rows' = SoftDelete(rows, id, now, TRUE)
    /\ UNCHANGED <<now, budget, hs, ts, cache, events, published, workers, pager, health, consumer>>

\* r.pool.Query: the statement runs in a transaction of its own; it selects
\* and locks its rows
QueryStart(w) ==
    /\ workers[w].pc = "idle"
    /\ \E limit \in 1..MaxLimit :
         \E s \in GetFailedForRetry(rows, Locked, limit, now) :
            workers' = [workers EXCEPT ![w] = [pc |-> "query", got |-> s]]
    /\ UNCHANGED <<now, budget, hs, ts, cache, rows, events, published, pager, health, consumer>>

\* the statement is over: its transaction commits, the locks are gone, the
\* rows are returned to the caller
QueryEnd(w) ==
    /\ workers[w].pc = "query"
    /\ workers' = [workers EXCEPT ![w].pc = IF workers[w].got = <<>> THEN "idle" ELSE "rows"]
    /\ UNCHANGED <<now, budget, hs, ts, cache, rows, events, published, pager, health, consumer>>

\* the worker takes up the first row it was given: the row leaves status failed
WorkerUpdate(w) ==
    /\ workers[w].pc = "rows"
    /\ Head(workers[w].got) \notin Locked
    /\ rows' = UpdateStatus(rows, Head(workers[w].got), "enriching", now, TRUE)
    /\ workers' = [workers EXCEPT ![w] =
                      IF Len(workers[w].got) = 1 THEN IdleWorker
                      ELSE [pc |-> "rows", got |-> Tail(workers[w].got)]]
    /\ UNCHANGED <<now, budget, hs, ts, cache, events, published, pager, health, consumer>>

WorkerNext ==
    \/ \E id \in RetryRows : CreateRow(id)
    \/ \E id \in RetryRows : FailRow(id)
    \/ \E id \in RetryRows : DeleteRow(id)
    \/ \E w \in Workers : QueryStart(w)
    \/ \E w \in Workers : QueryEnd(w)
    \/ \E w \in Workers : WorkerUpdate(w)
    \/ Tick

WorkerSpec == Init /\ [][WorkerNext]_vars

\* ------------------------------------------------------------------------
\* Cursor pagination: GetUserNotificationsWithCursor, all rows of one user
\* ------------------------------------------------------------------------
\* the rows the statement matches: not deleted and, with a cursor, created
\* before it
PageMatches(db, cursor) ==
    {id \in DOMAIN db : /\ db[id].deleted_at = NullTime
                        /\ cursor # NullTime => db[id].created_at < cursor}

\* the results GetUserNotificationsWithCursor can return: the first limit rows
\* by created_at descending (rows of one created_at in either order), and
\* the next cursor: the created_at of the last row, nil for a short page
GetUserNotificationsWithCursor(db, limit, cursor) ==
    LET E == PageMatches(db, cursor)
        k == IF limit < Cardinality(E) THEN limit ELSE Cardinality(E)
    IN  {[notifications |-> s,
          nextCursor |-> IF k < limit THEN NullTime ELSE db[s[k]].created_at] :
            s \in {q \in [1..k -> E] :
                    /\ \A i, j \in 1..k :
                          i < j => q[i] # q[j] /\ db[q[i]].created_at >= db[q[j]].created_at
                    /\ \A x \in E : (\A i \in 1..k : q[i] # x)
                          => \A i \in 1..k : db[x].created_at <= db[q[i]].created_at}}

\* the reader makes its first call, with a nil cursor, or the next one with
\* the cursor it was given; it stops at a nil cursor
PageCall ==
    /\ pager.pc \in {"idle", "paging"}
    /\ \E limit \in 1..MaxLimit :
         /\ pager.pc = "paging" => limit = pager.limit
         /\ \E page \in GetUserNotificationsWithCursor(rows, limit, pager.cursor) :
              pager' = [pc |-> IF page.nextCursor = NullTime THEN "done" ELSE "paging",
                        limit |-> limit,
                        cursor |-> page.nextCursor,
                        seen |-> pager.seen \o page.notifications]
    /\ UNCHANGED <<now, budget, hs, ts, cache, rows, events, published, workers, health, consumer>>

\* the reader starts over
PageReset ==
    /\ pager.pc = "done"
    /\ pager' = IdlePager
    /\ UNCHANGED <<now, budget, hs, ts, cache, rows, events, published, workers, health, consumer>>

\* the table changes only while nobody pages through it
PageNext ==
    \/ \E id \in RetryRows : pager.pc = "idle" /\ CreateRow(id)
    \/ \E id \in RetryRows : pager.pc = "idle" /\ DeleteRow(id)
    \/ pager.pc = "idle" /\ Tick
    \/ PageCall
    \/ PageReset

PageSpec == Init /\ [][PageNext]_vars

\* ------------------------------------------------------------------------
\* GET /health beside one request and its run
\* ------------------------------------------------------------------------
CheckStatus(ok) == IF ok THEN "healthy" ELSE "unhealthy"

\* HandleHealthCheck: isHealthy is cleared by a failing database ping only
HealthResponse(dbOK, redisOK) ==
    LET isHealthy == dbOK
    IN  [code |-> IF isHealthy THEN 200 ELSE 503,
         status |-> CheckStatus(isHealthy),
         database |-> CheckStatus(dbOK),
         redis |-> CheckStatus(redisOK)]

\* one GET /health: both pings, then the answer
HandleHealthCheck ==
    /\ \E dbOK \in BOOLEAN, redisOK \in BOOLEAN : health' = HealthResponse(dbOK, redisOK)
    /\ UNCHANGED <<now, budget, hs, ts, cache, rows, events, published, workers, pager, consumer>>

HealthNext ==
    \/ HandleHealthCheck
    \/ RunNext

HealthSpec == RunInit /\ [][HealthNext]_vars

\* ------------------------------------------------------------------------
\* One request of any notification_type and its run
\* ------------------------------------------------------------------------
AnyChannelNext ==
    \/ HandleBadRequest(1)
    \/ HandleGet(1, AnyChannelRequests)
    \/ HandleSet(1)
    \/ TaskStep(1)
    \/ Tick

AnyChannelSpec == Init /\ [][AnyChannelNext]_vars

\* ------------------------------------------------------------------------
\* Concurrent requests with caller-chosen idempotency keys of any form
\* ------------------------------------------------------------------------
KeyNext ==
    \/ \E r \in Reqs : HandleBadRequest(r)
    \/ \E r \in Reqs : HandleGet(r, KeyRequests)
    \/ \E r \in Reqs : HandleSet(r)
    \/ \E r \in Reqs : TaskStep(r)
    \/ Tick

KeySpec == Init /\ [][KeyNext]_vars

\* ------------------------------------------------------------------------
\* The push service: Consumer.Start, handleMessage, ProcessNotification
\* ------------------------------------------------------------------------
\* platforms of the device tokens of a message ("web": none the service knows)
Platforms == {"android", "ios", "web"}

\* the bodies the broker delivers: one that is no PushNotificationMessage, and
\* messages with the device tokens of these platforms
Bodies ==
    {[json |-> FALSE, tokens |-> <<>>]}
    \cup {[json |-> TRUE, tokens |-> t] :
            t \in {<<>>, <<"android">>, <<"ios">>, <<"web">>, <<"android", "ios">>}}

IsAndroid(platform) == platform = "android"

IsIOS(platform) == platform = "ios"

\* calculateDeliveryStatus: the tokens of the message, the results that
\* succeeded and those that failed
CalculateDeliveryStatus(tokens, results) ==
    [total |-> Len(tokens),
     success |-> Cardinality({i \in 1..Len(results) : results[i]}),
     failure |-> Cardinality({i \in 1..Len(results) : ~results[i]})]

\* (a ProcessNotification that returns the error of storeDeliveryStatus)
ProcessNotificationStoreErr(tokens, fcmEnabled, sendOK, storeOK) ==
    [err |-> IF Len(tokens) > 0 /\ ~storeOK THEN "failed to store" ELSE "",
     stored |-> Len(tokens) > 0 /\ storeOK,
     status |-> NoStatus]

\* PushService.ProcessNotification: what it returns, whether a delivery status
\* was stored, and the status; sendOK: the FCM requests succeed, storeOK: the
\* redis SET of the status succeeds
ProcessNotification(tokens, fcmEnabled, sendOK, storeOK) ==
    LET androidTokens == SelectSeq(tokens, IsAndroid)
        iosTokens == SelectSeq(tokens, IsIOS)
        fcmResults == IF Len(androidTokens) > 0 /\ fcmEnabled
                      THEN [i \in 1..Len(androidTokens) |-> sendOK] ELSE <<>>
        iosResults == [i \in 1..Len(iosTokens) |-> FALSE]
    IN  IF Len(tokens) = 0
        THEN [err |-> "", stored |-> FALSE, status |-> NoStatus]
        ELSE [err |-> "", stored |-> storeOK,
              status |-> CalculateDeliveryStatus(tokens, fcmResults \o iosResults)]

\* (a handleMessage that returns on a malformed body without settling it)
HandleMessageDropsMalformed(json, handlerErr) ==
    IF ~json THEN <<>>
    ELSE IF handlerErr # "" THEN <<[kind |-> "nack", requeue |-> TRUE]>>
    ELSE <<[kind |-> "ack", requeue |-> FALSE]>>

\* Consumer.handleMessage: the calls it makes on the delivery; json: the body
\* unmarshals, handlerErr: what the message handler returned
HandleMessage(json, handlerErr) ==
    IF ~json THEN <<[kind |-> "nack", requeue |-> FALSE]>>
    ELSE IF handlerErr # "" THEN <<[kind |-> "nack", requeue |-> TRUE]>>
    ELSE <<[kind |-> "ack", requeue |-> FALSE]>>

\* c.channel.Consume at the head of Start call k: on an error Start returns
\* it, else it spawns the goroutine and blocks at <-c.done
StartCall(c, k, ok) ==
    IF ok
    THEN [c EXCEPT !.start[k] = "wait", !.loop[k] = "select", !.msgs[k] = "open"]
    ELSE [c EXCEPT !.start[k] = "failed"]

\* App.Start calls Consumer.Start
AppStart ==
    /\ consumer.start[1] = "none"
    /\ \E ok \in BOOLEAN : consumer' = StartCall(consumer, 1, ok)
    /\ UNCHANGED <<now, budget, hs, ts, cache, rows, events, published, workers, pager, health>>

\* the context of App.Start is cancelled
Cancel ==
    /\ consumer.start[1] # "none"
    /\ ~consumer.ctxDone
    /\ consumer' = [consumer EXCEPT !.ctxDone = TRUE]
    /\ UNCHANGED <<now, budget, hs, ts, cache, rows, events, published, workers, pager, health>>

\* the connection is lost: the delivery channel of call k is closed
CloseDeliveries(k) ==
    /\ consumer.msgs[k] = "open"
    /\ k < MaxStarts \/ ~consumer.reconnect
    /\ consumer' = [consumer EXCEPT !.msgs[k] = "closed"]
    /\ UNCHANGED <<now, budget, hs, ts, cache, rows, events, published, workers, pager, health>>

\* case <-ctx.Done(): the goroutine goes to c.done <- true
LoopCancelled(k) ==
    /\ consumer.loop[k] = "select"
    /\ consumer.ctxDone
    /\ consumer' = [consumer EXCEPT !.loop[k] = "send"]
    /\ UNCHANGED <<now, budget, hs, ts, cache, rows, events, published, workers, pager, health>>

\* case msg, ok := <-msgs with ok: handleMessage(ctx, msg), the handler being
\* App.handleNotification, which is ProcessNotification
LoopHandle(k) ==
    /\ consumer.loop[k] = "select"
    /\ consumer.msgs[k] = "open"
    /\ Len(consumer.deliveries) < MaxDeliveries
    /\ \E body \in Bodies, sendOK \in BOOLEAN, storeOK \in BOOLEAN :
         LET out == IF body.json
                    THEN ProcessNotification(body.tokens, consumer.fcm, sendOK, storeOK)
                    ELSE [err |-> "", stored |-> FALSE, status |-> NoStatus]
         IN  consumer' = [consumer EXCEPT
                 !.deliveries = Append(@, [body |-> body, err |-> out.err,
                                           stored |-> out.stored, status |-> out.status,
                                           settled |-> HandleMessage(body.json, out.err)]),
                 !.status = IF out.stored THEN out.status ELSE @]
    /\ UNCHANGED <<now, budget, hs, ts, cache, rows, events, published, workers, pager, health>>

\* case msg, ok := <-msgs with !ok. Without config.Reconnect the goroutine
\* returns. With it, reconnect(ctx) fails when ctx is cancelled or the five
\* attempts fail, and the goroutine goes to c.done <- true; after a reconnect
\* it calls c.Start(ctx), which fails at Consume (on to c.done <- true) or
\* spawns the next goroutine and blocks at <-c.done
LoopClosed(k) ==
    /\ consumer.loop[k] = "select"
    /\ consumer.msgs[k] = "closed"
    /\ IF ~consumer.reconnect
       THEN consumer' = [consumer EXCEPT !.loop[k] = "exited"]
       ELSE \E connected \in BOOLEAN, consumeOK \in BOOLEAN :
               /\ connected => ~consumer.ctxDone /\ k < MaxStarts
               /\ consumer' =
                    IF ~connected THEN [consumer EXCEPT !.loop[k] = "send"]
                    ELSE IF ~consumeOK
                    THEN [consumer EXCEPT !.loop[k] = "send", !.start[k + 1] = "failed"]
                    ELSE StartCall([consumer EXCEPT !.loop[k] = "restart"], k + 1, TRUE)
    /\ UNCHANGED <<now, budget, hs, ts, cache, rows, events, published, workers, pager, health>>

\* c.done is unbuffered: the send of goroutine k meets the receive of one
\* pending Start call j, which returns nil; the goroutine returns after its
\* send, and the goroutine that had called Start j (err == nil) returns too
Handoff(k, j) ==
    /\ consumer.loop[k] = "send"
    /\ consumer.start[j] = "wait"
    /\ consumer' = [consumer EXCEPT
            !.start[j] = "returned",
            !.loop = [i \in Starts |-> IF i = k \/ i = j - 1 THEN "exited" ELSE @[i]]]
    /\ UNCHANGED <<now, budget, hs, ts, cache, rows, events, published, workers, pager, health>>

\* the steps of the goroutines of the consumer
ConsumerStep ==
    \/ \E k \in Starts : LoopCancelled(k)
    \/ \E k \in Starts : LoopHandle(k)
    \/ \E k \in Starts : LoopClosed(k)
    \/ \E k \in Starts, j \in Starts : Handoff(k, j)

ConsumerNext ==
    \/ AppStart
    \/ Cancel
    \/ \E k \in Starts : CloseDeliveries(k)
    \/ ConsumerStep

\* the push service as configured: with or without reconnection and FCM
ConsumerInit ==
    /\ now = 0
    /\ budget = 0
    /\ hs = [r \in Reqs |-> IdleH]
    /\ ts = [r \in Reqs |-> IdleT]
    /\ cache = <<>>
    /\ rows = <<>>
    /\ events = [id \in NotifIDs |-> <<>>]
    /\ published = [id \in NotifIDs |-> <<>>]
    /\ workers = [w \in Workers |-> IdleWorker]
    /\ pager = IdlePager
    /\ health = NoHealth
    /\ \E reconnect \in BOOLEAN, fcm \in BOOLEAN :
         consumer = [IdleConsumer EXCEPT !.reconnect = reconnect, !.fcm = fcm]

ConsumerSpec == ConsumerInit /\ [][ConsumerNext]_vars

\* the goroutines of the consumer are scheduled
FairConsumerSpec == ConsumerSpec /\ WF_vars(ConsumerStep)

\* ------------------------------------------------------------------------
\* Properties
\* ------------------------------------------------------------------------
\* the 24 hours of the idempotency window (GetByIdempotencyKey: INTERVAL '24 hours')
Window == IdempotencyTTL

Spawned(r) == ts[r].pc # "none"

RowsOfKey(k) == {id \in DOMAIN rows : rows[id].idempotency_key = k /\ rows[id].deleted_at = NullTime}

WithinWindow(t1, t2) == t1 - t2 < Window /\ t2 - t1 < Window

\* a step in which request r reads the cache and the read succeeds
GetStep(r) == hs[r].pc = "idle" /\ hs'[r].pc # "idle" /\ hs'[r].resp \notin {400, 500}

\* C1: for requests with the same idempotency key within 24 hours, at most one
\* Notification row exists for the key, every (notification_id, channel) is
\* published at most once, and so the key has at most one published message.
C1_OneRowOneMessagePerKey ==
    /\ \A x, y \in DOMAIN rows :
          ~(/\ x # y
            /\ rows[x].idempotency_key = rows[y].idempotency_key
            /\ WithinWindow(rows[x].created_at, rows[y].created_at))
    /\ \A id \in NotifIDs : Len(published[id]) <= 1
    /\ \A x, y \in NotifIDs :
          ~(/\ x # y
            /\ published[x] # <<>> /\ published[y] # <<>>
            /\ published[x][1].idempotency_key = published[y][1].idempotency_key
            /\ WithinWindow(hs[x].ansAt, hs[y].ansAt))

\* C2: the cache write of a request that saw a miss is set-if-absent: when
\* a concurrent request with the same key has stored its correlation id in
\* the meantime, the request is answered 200 with the stored correlation id,
\* writes nothing and starts no task; so of two such requests exactly one is
\* answered 202.
C2_SetIfAbsent ==
    [][\A r \in Reqs :
         (hs[r].pc = "set" /\ hs'[r].pc = "done" /\ CacheGet(hs[r].key) # "")
            => /\ hs'[r].resp = 200
               /\ hs'[r].respCorr = CacheGet(hs[r].key)
               /\ ~Spawned(r)'
               /\ cache' = cache]_vars

C4_HitChangesNothing ==
    [][\A r \in Reqs :
         (GetStep(r) /\ CacheGet(hs'[r].key) # "")
            => /\ hs'[r].pc = "done" /\ hs'[r].resp = 200
               /\ UNCHANGED <<ts, cache, rows, events, published>>]_vars

C4_Witness ==
    \E r \in Reqs :
        /\ hs[r].pc = "done" /\ hs[r].resp = 200
        /\ ~Spawned(r)
        /\ hs[r].key \in DOMAIN cache

\* C5: while the cache holds a correlation id for an idempotency key, no
\* request replaces the stored value.
C5_StoredValueKept ==
    [][\A k \in IdemKeys :
         (k \in DOMAIN cache /\ k \in DOMAIN cache') => cache'[k].val = cache[k].val]_vars

\* C6: CreateNotification fails and inserts nothing when a live row with the
\* same idempotency_key was created within the previous 24 hours, also when
\* the created_at values differ.
C6_CreateRejectsDuplicateKey ==
    [][\A r \in Reqs :
         (/\ ts[r].pc = "insert" /\ ts'[r].pc # "insert"
          /\ \E x \in RowsOfKey(hs[r].key) : now - rows[x].created_at < Window)
         => rows' = rows /\ ts'[r].pc = "insert_failed_status"]_vars

\* C7: of two EnrichAndPublish tasks for the same idempotency key, one whose
\* insert was rejected appends no event and publishes nothing, and the two
\* never both publish.
C7_DuplicateTaskPublishesNothing ==
    \A r1, r2 \in Reqs :
        (r1 # r2 /\ Spawned(r1) /\ Spawned(r2) /\ hs[r1].key = hs[r2].key
                 /\ WithinWindow(hs[r1].ansAt, hs[r2].ansAt))
        => /\ (ts[r1].pc \notin {"insert"} /\ r1 \notin DOMAIN rows)
                 => events[r1] = <<>> /\ published[r1] = <<>>
           /\ ~(published[r1] # <<>> /\ published[r2] # <<>>)

\* the transitions of the status state machine
AllowedTransitions ==
    { <<"pending", "enriching">>, <<"pending", "failed">>, <<"enriching", "failed">>,
      <<"enriching", "queued">>, <<"queued", "processing">>, <<"processing", "sent">>,
      <<"sent", "delivered">>, <<"sent", "failed">>, <<"processing", "failed">>,
      <<"failed", "enriching">> }
    \cup { <<s, "cancelled">> : s \in Statuses \ {"delivered", "failed", "cancelled"} }

\* C8: every change of a row's status is a transition of the state machine;
\* a call asking for another transition leaves the status as it was.
C8_OnlyAllowedTransitions ==
    [][\A id \in DOMAIN rows :
         (id \in DOMAIN rows' /\ rows'[id].status # rows[id].status)
            => <<rows[id].status, rows'[id].status>> \in AllowedTransitions]_vars

\* the outcome of a happy run of request r
HappyOutcome(r) ==
    /\ DOMAIN rows = {r}
    /\ rows[r].status = "queued"
    /\ [i \in 1..Len(events[r]) |-> events[r][i].event_type] = <<"created", "enriched", "queued">>
    /\ Len(published[r]) = 1
    /\ published[r][1].routing_key = (IF hs[r].channel = "email" THEN "notification.email"
                                      ELSE "notification.push")
    /\ published[r][1].correlation_id = hs[r].respCorr
    /\ CacheGet(StatusKey(hs[r].corr)) = "{status:queued,error:}"

\* insert done, both fetches answered success=true with data that parses and
\* permits the channel, and no infrastructure error so far
HappyFetches(r) ==
    /\ ts[r].pc = "fetch"
    /\ r \in DOMAIN rows
    /\ ts[r].userChan # <<>> /\ ts[r].templateChan # <<>>
    /\ ts[r].userChan[1].Success /\ ts[r].userChan[1].Data = "optin"
    /\ ts[r].templateChan[1].Success /\ ts[r].templateChan[1].Data = "tmpl"
    /\ budget = MaxFaults

\* C9: a run whose insert, fetches and publish succeed ends with one row in
\* status queued, the events created, enriched, queued in this order, one
\* broker message on notification.<channel> and the snapshot status queued.
C9_HappyPath == HappyFetches(1) ~> (HappyOutcome(1) \/ budget < MaxFaults)

C9_Witness == HappyOutcome(1) /\ budget = MaxFaults /\ ts[1].pc = "done"

\* C10: a row in status queued, processing, sent or delivered has an enriched
\* payload; no task is past the payload write with the payload still null.
C10_QueuedHasPayload ==
    /\ \A id \in DOMAIN rows :
          rows[id].status \in {"queued", "processing", "sent", "delivered"}
             => rows[id].enriched_payload # NullPayload
    /\ \A r \in Reqs :
          ts[r].pc \in {"enriched_event", "publish", "queued_update", "queued_event",
                        "queued_status"}
             => r \in DOMAIN rows /\ rows[r].enriched_payload # NullPayload

C10_Witness ==
    \E id \in DOMAIN rows :
        /\ rows[id].status = "queued"
        /\ rows[id].enriched_payload = "{user_preferences:optout,template:tmpl}"
        /\ budget = 0

\* C11: a notification in status failed has error_code and failed_at set,
\* whatever repository operations were applied to it.
C11_FailedHasCodeAndTime ==
    \A id \in DOMAIN rows :
        rows[id].status = "failed"
           => rows[id].error_code # "NULL" /\ rows[id].failed_at # NullTime

\* the number of events of one type recorded for a notification
CountEvents(id, eventType) ==
    Cardinality({i \in 1..Len(events[id]) : events[id][i].event_type = eventType})

\* C12: when EnrichAndPublish has returned, the events that carry the name of
\* a status match the transitions made on the row, one event per transition:
\* one queued event exactly when the row entered queued, and one failed event
\* per entry into failed (each entry counted by retry_count).
C12_EventsMatchTransitions ==
    \A r \in Reqs :
        (ts[r].pc = "done" /\ r \in DOMAIN rows)
        => /\ CountEvents(r, "queued") = (IF rows[r].queued_at # NullTime THEN 1 ELSE 0)
           /\ CountEvents(r, "failed") = rows[r].retry_count

\* C13: enriched_at is set on a row exactly when an enriched payload has been
\* persisted on it; a run that fails in the fetches or in parsing, and so
\* stores no payload, leaves enriched_at null.
C13_EnrichedAtIffPayload ==
    \A id \in DOMAIN rows :
        rows[id].enriched_at # NullTime <=> rows[id].enriched_payload # NullPayload

\* the phase timestamps of a row in the order of the phases
PhaseTimes(row) ==
    <<row.created_at, row.enriched_at, row.queued_at, row.sent_at, row.delivered_at>>

WrittenOnce(row) ==
    <<row.enriched_at, row.queued_at, row.sent_at, row.delivered_at, row.failed_at>>

\* C15: a phase timestamp that is set keeps its value under every later
\* repository call, also one that enters the same status again.
C15_FirstWriteWins ==
    [][\A id \in DOMAIN rows :
         id \in DOMAIN rows'
            => \A i \in 1..5 :
                  WrittenOnce(rows[id])[i] # NullTime
                     => WrittenOnce(rows'[id])[i] = WrittenOnce(rows[id])[i]]_vars

\* the row entered enriching and failed at 0, failed a second time, entered
\* queued at 1 and after that enriching again
C15_Witness ==
    \E id \in DOMAIN rows :
        /\ rows[id].status = "enriching"
        /\ rows[id].enriched_at = 0
        /\ rows[id].queued_at = 1
        /\ rows[id].failed_at = 0
        /\ rows[id].retry_count = 2

\* C16: a message of a notification is on the broker only when the enriched
\* payload is stored on its row; the row is in status queued only when the
\* message is on the broker; and the cache snapshot says queued only when the
\* row has been written as queued.
C16_PublishBetweenPayloadAndQueued ==
    \A r \in Reqs :
        /\ published[r] # <<>>
              => r \in DOMAIN rows /\ rows[r].enriched_payload # NullPayload
        /\ (r \in DOMAIN rows /\ rows[r].status = "queued") => published[r] # <<>>
        /\ (Spawned(r) /\ CacheGet(StatusKey(hs[r].corr)) = StatusJSON("queued", ""))
              => r \in DOMAIN rows /\ rows[r].queued_at # NullTime

\* C17: while one of the two fetches of a task has not answered, the task
\* stays at the join: it starts no failure handling, payload write or
\* publish, and writes nothing to its row, its events or the broker.
C17_JoinWaitsForBoth ==
    [][\A r \in Reqs :
         (ts[r].pc = "fetch" /\ (ts[r].userChan = <<>> \/ ts[r].templateChan = <<>>))
            => /\ ts'[r].pc = "fetch"
               /\ r \in DOMAIN rows' /\ rows'[r] = rows[r]
               /\ events'[r] = events[r]
               /\ published'[r] = published[r]]_vars

\* the user fetch has failed and the task still waits for the template fetch
C17_Witness ==
    \E r \in Reqs :
        /\ ts[r].pc = "fetch"
        /\ ts[r].userChan # <<>>
        /\ ~ts[r].userChan[1].Success
        /\ ts[r].templateChan = <<>>

\* both fetches of task r have answered, the row is stored and no
\* infrastructure error has struck so far
FetchesAnswered(r) ==
    /\ ts[r].pc = "fetch"
    /\ r \in DOMAIN rows
    /\ ts[r].userChan # <<>> /\ ts[r].templateChan # <<>>
    /\ budget = MaxFaults

\* the task has returned after recording the failure code at the stage
FailedOutcome(r, code, stage) ==
    /\ ts[r].pc = "done"
    /\ r \in DOMAIN rows
    /\ rows[r].status = "failed"
    /\ rows[r].error_code = code
    /\ rows[r].failed_at # NullTime
    /\ CountEvents(r, "failed") = 1
    /\ events[r][Len(events[r])].event_type = "failed"
    /\ events[r][Len(events[r])].stage = stage
    /\ \E m \in {"client error: 404", "no user response received",
                 "no template response received"} :
          CacheGet(StatusKey(hs[r].corr)) = "{status:failed,error:" \o m \o "}"
    /\ rows[r].enriched_payload = NullPayload
    /\ published[r] = <<>>

\* C18: when the user fetch has failed or answered success=false, the run
\* ends with the row failed with USER_FETCH_ERROR, one failed event tagged
\* user_fetch and the snapshot failed, with no payload stored and nothing
\* published; likewise TEMPLATE_FETCH_ERROR / template_fetch when the user
\* fetch succeeded and the template fetch did not (runs without
\* infrastructure error).  With or without such errors, a task that handles
\* a fetch or parse failure has stored no payload and published nothing.
C18_FetchFailureRecorded ==
    /\ (FetchesAnswered(1) /\ ~ts[1].userChan[1].Success)
          ~> (FailedOutcome(1, "USER_FETCH_ERROR", "user_fetch") \/ budget < MaxFaults)
    /\ (FetchesAnswered(1) /\ ts[1].userChan[1].Success /\ ~ts[1].templateChan[1].Success)
          ~> (FailedOutcome(1, "TEMPLATE_FETCH_ERROR", "template_fetch")
              \/ budget < MaxFaults)
    /\ [](\A r \in Reqs :
             ts[r].code \in {"USER_FETCH_ERROR", "TEMPLATE_FETCH_ERROR", "PARSE_ERROR"}
                => /\ published[r] = <<>>
                   /\ r \in DOMAIN rows => rows[r].enriched_payload = NullPayload)

C18_Witness ==
    /\ FailedOutcome(1, "TEMPLATE_FETCH_ERROR", "template_fetch")
    /\ rows[1].error_message = "client error: 404"
    /\ budget = MaxFaults

\* C19: when the user's preferences do not permit the requested channel
\* (user data "optout"), the task goes from the join to failure handling:
\* it never prepares a payload or a publish with these preferences, and no
\* broker message carries them.
C19_OptOutNotPublished ==
    \A r \in Reqs :
        /\ ts[r].pc \in {"payload", "enriched_event", "publish"}
              => ts[r].userPrefs # "optout"
        /\ \A i \in 1..Len(published[r]) : published[r][i].user_preferences # "optout"

\* the task has returned after recording the failed publish
QueueFailedOutcome(r) ==
    /\ ts[r].pc = "done"
    /\ r \in DOMAIN rows
    /\ rows[r].status = "failed"
    /\ rows[r].error_code = "QUEUE_ERROR"
    /\ rows[r].failed_at # NullTime
    /\ rows[r].queued_at = NullTime
    /\ CountEvents(r, "failed") = 1
    /\ events[r][Len(events[r])] =
          [event_type |-> "failed", correlation_id |-> ParseUUID(hs[r].corr),
           stage |-> "queue_publish"]
    /\ CountEvents(r, "queued") = 0
    /\ CacheGet(StatusKey(hs[r].corr)) = "{status:failed,error:failed to publish to queue}"
    /\ published[r] = <<>>

\* C20: when the publish has returned an error (the only error of the run),
\* the task ends with the row failed with QUEUE_ERROR, one failed event
\* tagged queue_publish and the snapshot failed; and in every run a row
\* marked QUEUE_ERROR, or a task handling that error, has no queued status
\* written, no queued event and no broker message.
C20_PublishErrorRecorded ==
    /\ (ts[1].code = "QUEUE_ERROR" /\ budget = MaxFaults - 1)
          ~> (QueueFailedOutcome(1) \/ budget < MaxFaults - 1)
    /\ [](\A r \in Reqs :
             (ts[r].code = "QUEUE_ERROR"
              \/ (r \in DOMAIN rows /\ rows[r].error_code = "QUEUE_ERROR"))
                => /\ r \in DOMAIN rows
                   /\ rows[r].status # "queued"
                   /\ rows[r].queued_at = NullTime
                   /\ CountEvents(r, "queued") = 0
                   /\ published[r] = <<>>)

C20_Witness == QueueFailedOutcome(1) /\ budget = MaxFaults - 1 /\ hs[1].channel = "push"

\* C21: when a task that inserted its row has returned, the row is in status
\* queued or failed, and a row that is not queued has a failed event and a
\* failed snapshot.
C21_RunEndsQueuedOrFailed ==
    \A r \in Reqs :
        (ts[r].pc = "done" /\ r \in DOMAIN rows)
        => /\ rows[r].status \in {"queued", "failed"}
           /\ rows[r].status # "queued"
                 => /\ CountEvents(r, "failed") >= 1
                    /\ \E m \in {"client error: 404", "no user response received",
                                 "no template response received", "Invalid user data format",
                                 "Invalid template format", "failed to publish to queue"} :
                          CacheGet(StatusKey(hs[r].corr)) = StatusJSON("failed", m)

\* C22: a task that passes the join with a fetch whose retries ran out of time
\* records the failure code TIMEOUT.
C22_DeadlineRecordsTimeout ==
    [][\A r \in Reqs :
          (/\ TaskJoin(r)
           /\ \E client \in Clients : CallOf(ts[r], client).gaveUp)
          => ts'[r].code = "TIMEOUT"]_vars

\* C23: when the first answer of a remote service has a 4xx status, whatever its
\* body, the fetch is over after that one request and reports success=false.
C23_ClientErrorNotRetried ==
    \A r \in Reqs : \A client \in Clients :
        LET c == CallOf(ts[r], client)
        IN  (c.attempts = 1 /\ IsClientError(c.last))
            => /\ ChanOf(ts[r], client) # <<>>
               /\ ~ChanOf(ts[r], client)[1].Success

\* the fetch of a client has answered success after one or more answers 503
\* and a last answer 200
RetriedThenOK(r, client) ==
    LET c == CallOf(ts[r], client)
    IN  /\ c.attempts >= 2 /\ c.prior = {503} /\ c.last = 200
        /\ ChanOf(ts[r], client) # <<>>
        /\ ChanOf(ts[r], client)[1].Success

\* both fetches have answered success=true, one of them after answers 503,
\* and no infrastructure error so far
RetriedFetches(r) ==
    /\ ts[r].pc = "fetch"
    /\ r \in DOMAIN rows
    /\ ts[r].userChan # <<>> /\ ts[r].templateChan # <<>>
    /\ ts[r].userChan[1].Success /\ ts[r].templateChan[1].Success
    /\ \E client \in Clients : RetriedThenOK(r, client)
    /\ budget = MaxFaults

\* C24: when a remote service has answered 503 to the first attempts and the
\* next attempt, still inside the retry budget, is answered 200 with
\* success=true, the fetch sends a response with success=true and the data of
\* that answer; a run whose fetches both succeed, one of them in this way,
\* and that meets no infrastructure error reaches status queued with one
\* broker message, and no run publishes more than one.
C24_RetryThenSuccess ==
    /\ [][\A r \in Reqs : \A client \in Clients : \A next \in 1..MaxWait :
             LET c == CallOf(ts[r], client)
             IN  (/\ At(r, "fetch") /\ ChanOf(ts[r], client) = <<>>
                  /\ c.attempts >= 1 /\ c.prior \cup {c.last} = {503}
                  /\ ts' = [ts EXCEPT ![r] = DoWithRetry(@, client, 200, "ok", next)])
                 => /\ Len(ChanOf(ts'[r], client)) = 1
                    /\ ChanOf(ts'[r], client)[1].Success
                    /\ ChanOf(ts'[r], client)[1].Data = DataOf(client)]_vars
    /\ RetriedFetches(1) ~> ((HappyOutcome(1) /\ ts[1].pc = "done") \/ budget < MaxFaults)
    /\ [](\A r \in Reqs : Len(published[r]) <= 1)

C24_Witness ==
    /\ RetriedFetches(1)
    /\ RetriedThenOK(1, "user")
    /\ ts[1].userCall.attempts = 3
    /\ ts[1].userChan[1].Data = "optin"

\* the rows a worker was given and has not updated yet
Given(w) == IF workers[w].pc = "rows"
            THEN {workers[w].got[i] : i \in 1..Len(workers[w].got)} ELSE {}

\* C25: no row is in the hands of two retry workers at once: a row returned
\* to one worker is not returned to another before the first has updated it.
C25_NoRowGivenTwice ==
    \A w1, w2 \in Workers : w1 # w2 => Given(w1) \cap Given(w2) = {}

\* the level of a priority: Low = 1, Normal, High, Urgent = 4
PriorityLevel(priority) ==
    CASE priority = "low"    -> 1
      [] priority = "normal" -> 2
      [] priority = "high"   -> 3
      [] priority = "urgent" -> 4

\* C26: whatever the table and the limit, GetFailedForRetry returns at most
\* limit rows, each not deleted, in status failed, with retry_count below
\* max_retries and failed_at within the last 24 hours, the more urgent
\* priority first (urgent, high, normal, low) and, within one priority, the
\* older created_at first.
C26_RetrySelection ==
    \A limit \in 1..MaxLimit : \A s \in GetFailedForRetry(rows, Locked, limit, now) :
        /\ Len(s) <= limit
        /\ \A i \in 1..Len(s) :
              /\ rows[s[i]].deleted_at = NullTime
              /\ rows[s[i]].status = "failed"
              /\ rows[s[i]].retry_count < rows[s[i]].max_retries
              /\ rows[s[i]].failed_at # NullTime
              /\ rows[s[i]].failed_at > now - Window
        /\ \A i, j \in 1..Len(s) :
              i < j => \/ PriorityLevel(rows[s[i]].priority) > PriorityLevel(rows[s[j]].priority)
                       \/ /\ rows[s[i]].priority = rows[s[j]].priority
                          /\ rows[s[i]].created_at <= rows[s[j]].created_at

\* C27: once SoftDelete has succeeded on a row, UpdateStatus,
\* UpdateEnrichedPayload, UpdateFailure and SoftDelete on its id return an
\* error and change nothing, no repository operation changes the row any more,
\* and GetByID, GetByCorrelationID and GetByIdempotencyKey do not return it.
C27_DeletedRowIsGone ==
    /\ [](\A id \in DOMAIN rows :
            rows[id].deleted_at # NullTime
            => /\ \A status \in Statuses :
                     /\ ~UpdateStatusOK(rows, id, status, TRUE)
                     /\ UpdateStatus(rows, id, status, now, TRUE) = rows
               /\ ~UpdateEnrichedPayloadOK(rows, id, TRUE)
               /\ UpdateEnrichedPayload(rows, id, EnrichedPayload("optin", "tmpl"), TRUE) = rows
               /\ ~UpdateFailureOK(rows, id, TRUE)
               /\ \A code \in ErrorCodes : UpdateFailure(rows, id, code, "error", now, TRUE) = rows
               /\ ~SoftDeleteOK(rows, id, TRUE)
               /\ SoftDelete(rows, id, now, TRUE) = rows
               /\ id \notin GetByID(rows, id)
               /\ id \notin GetByCorrelationID(rows, rows[id].correlation_id)
               /\ id \notin GetByIdempotencyKey(rows, rows[id].idempotency_key, now))
    /\ [][\A id \in DOMAIN rows :
             rows[id].deleted_at # NullTime => id \in DOMAIN rows' /\ rows'[id] = rows[id]]_vars

C27_Witness ==
    /\ 1 \in DOMAIN rows
    /\ rows[1].deleted_at = 0
    /\ now = 1
    /\ rows[1].status = "failed"
    /\ rows[1].enriched_payload # NullPayload

\* C28: a reader that has paged from a nil cursor to a nil cursor, the table
\* unchanged meanwhile, has been given every row of the user that is not
\* deleted, each once, the newer created_at first.
C28_PagesCoverAllRows ==
    pager.pc = "done"
    => /\ {pager.seen[i] : i \in 1..Len(pager.seen)}
             = {id \in DOMAIN rows : rows[id].deleted_at = NullTime}
       /\ \A i, j \in 1..Len(pager.seen) :
             i < j => /\ pager.seen[i] # pager.seen[j]
                      /\ rows[pager.seen[i]].created_at >= rows[pager.seen[j]].created_at

\* C29: GET /health answers 503 with status unhealthy when the database ping
\* or the redis ping failed, and 200 with status healthy when both succeeded.
C29_HealthReflectsBothPings ==
    health # NoHealth
    => IF health.database = "healthy" /\ health.redis = "healthy"
       THEN health.code = 200 /\ health.status = "healthy"
       ELSE health.code = 503 /\ health.status = "unhealthy"

\* C30: a request without X-Idempotency-Key, or with a body that does not
\* decode or validate, is answered 400 with no data, and the step that answers
\* it writes no cache entry, starts no task and creates no row; no task, row,
\* event or message of that request ever exists.
C30_BadRequestHasNoEffect ==
    /\ [][\A r \in Reqs :
             (hs[r].pc = "idle" /\ hs'[r].resp = 400)
             => /\ hs'[r].respCorr = ""
                /\ UNCHANGED <<cache, ts, rows, events, published>>]_vars
    /\ [](\A r \in Reqs :
             hs[r].resp = 400
             => /\ ts[r].pc = "none"
                /\ r \notin DOMAIN rows
                /\ events[r] = <<>>
                /\ published[r] = <<>>)

C30_Witness ==
    /\ hs[1].resp = 400
    /\ hs[2].resp = 202
    /\ ts[2].pc = "done"
    /\ DOMAIN rows = {2}
    /\ DOMAIN cache = {"k1", StatusKey(hs[2].corr)}

\* C31: a request whose notification_type is neither email nor push is
\* answered 400, and it leaves no idempotency entry, no task and no row.
C31_UnknownChannelRejected ==
    \A r \in Reqs :
        (hs[r].pc = "done" /\ hs[r].channel \notin {"", "email", "push"})
        => /\ hs[r].resp = 400
           /\ CacheGet(hs[r].key) = ""
           /\ ts[r].pc = "none"
           /\ r \notin DOMAIN rows

\* C32: the step that writes the idempotency entry answers 202 with the
\* correlation id and starts the task without running any of it, so the answer
\* is fixed before the orchestration has an outcome; an answer once given is
\* never changed, whether the run ends in queued or in failed.
C32_AckIndependentOfOutcome ==
    [][\A r \in Reqs :
          /\ (hs[r].pc = "set" /\ cache' # cache)
                => /\ hs'[r].pc = "done" /\ hs'[r].resp = 202 /\ hs'[r].respCorr = hs[r].corr
                   /\ ts[r].pc = "none" /\ ts'[r].pc = "insert"
                   /\ UNCHANGED <<rows, events, published>>
          /\ hs[r].pc = "done" => hs'[r] = hs[r]]_vars

C32_Witness ==
    /\ hs[1].resp = 202
    /\ hs[1].respCorr = "c1"
    /\ ts[1].pc = "done"
    /\ 1 \in DOMAIN rows
    /\ rows[1].status = "failed"
    /\ rows[1].error_code = "QUEUE_ERROR"

\* C33: the correlation id of the 202 answer is the correlation id of the
\* row of that request, of each of its events and of its broker message, and
\* the status snapshot of the notification lies under the key of that id.
C33_OneCorrelationID ==
    \A r \in Reqs :
        hs[r].resp = 202
        => /\ r \in DOMAIN rows => rows[r].correlation_id = hs[r].respCorr
           /\ \A i \in 1..Len(events[r]) : events[r][i].correlation_id = hs[r].respCorr
           /\ \A i \in 1..Len(published[r]) : published[r][i].correlation_id = hs[r].respCorr
           /\ \A k \in DOMAIN cache :
                 k \notin IdemKeys => k = StatusKey(hs[r].respCorr)

\* C34: a request whose idempotency read or write meets an unavailable cache
\* is answered 500 by a step that starts no task and writes nothing, and no
\* task, row, event or broker message of that request ever exists.
C34_CacheDownAnswers500 ==
    /\ [][\A r \in Reqs :
             (hs[r].pc \in {"idle", "set"} /\ hs'[r] # hs[r] /\ budget' < budget)
             => /\ hs'[r].pc = "done" /\ hs'[r].resp = 500
                /\ UNCHANGED <<ts, cache, rows, events, published>>]_vars
    /\ [](\A r \in Reqs :
             hs[r].resp = 500
             => /\ ts[r].pc = "none"
                /\ r \notin DOMAIN rows
                /\ events[r] = <<>>
                /\ published[r] = <<>>)

C34_Witness ==
    /\ hs[1].pc = "done"
    /\ hs[1].resp = 500
    /\ budget = MaxFaults - 1
    /\ now = 1

\* the status snapshots a task can write
Snapshots ==
    {StatusJSON(st, m) : st \in {"queued", "failed"},
                         m \in {"", "client error: 404", "no user response received",
                                "no template response received", "Invalid user data format",
                                "Invalid template format", "failed to publish to queue",
                                "failed to create notification"}}

\* the step of a task that writes a status snapshot
SnapshotStep(r) ==
    /\ ts[r].pc \in {"insert_failed_status", "fail_status", "queued_status"}
    /\ ts'[r].pc = "done"
    /\ cache' # cache

\* C35: the idempotency record of key k lies under the cache key
\* idempotency:k; no request takes a status snapshot for an idempotency hit,
\* and no snapshot write changes what the cache holds under the key of an
\* idempotency record.
C35_KeyFamiliesDisjoint ==
    /\ [](\A r \in Reqs :
             (hs[r].resp = 202 /\ now < hs[r].ansAt + IdempotencyTTL)
             => CacheGet("idempotency:" \o hs[r].key) # "")
    /\ [][\A r \in Reqs :
             /\ (GetStep(r) /\ hs'[r].resp = 200) => hs'[r].respCorr \notin Snapshots
             /\ SnapshotStep(r)
                   => \A o \in Reqs :
                         hs[o].resp = 202 => CacheGet(hs[o].key)' = CacheGet(hs[o].key)]_vars

\* C36: in a run each of the two fetch goroutines sends exactly one response
\* on its channel, whichever way DoWithRetry ends (an answer 200 that decodes,
\* a permanent error, retries that ran out of time; the context of a run is
\* context.Background() and is never cancelled): an attempt that ends the
\* retries leaves one response on the channel, a response sent stays alone
\* on the channel until the join, the join goes on with one response on each
\* channel, and a run that waits at the join always gets past it.
C36_BothFetchesSend ==
    /\ [](\A r \in Reqs : Len(ts[r].userChan) <= 1 /\ Len(ts[r].templateChan) <= 1)
    /\ [][\A r \in Reqs :
             /\ \A client \in Clients, status \in HTTPStatuses,
                   doc \in Documents, next \in 1..MaxWait :
                   LET c == CallOf(ts[r], client)
                       op == Operation(c.body, status, doc, client)
                   IN  (/\ At(r, "fetch") /\ ChanOf(ts[r], client) = <<>>
                        /\ CallOf(ts'[r], client).attempts = c.attempts + 1
                        /\ CallOf(ts'[r], client).last = status
                        /\ (op.err = "" \/ RetryStops(op.permanent, c.elapsed, next))
                        /\ ts' = [ts EXCEPT ![r] = DoWithRetry(@, client, status, doc, next)])
                       => Len(ChanOf(ts'[r], client)) = 1
             /\ \A client \in Clients :
                   (ChanOf(ts[r], client) # <<>> /\ ts'[r].pc = "fetch")
                   => ChanOf(ts'[r], client) = ChanOf(ts[r], client)
             /\ (ts[r].pc = "fetch" /\ ts'[r].pc # "fetch")
                   => Len(ts[r].userChan) = 1 /\ Len(ts[r].templateChan) = 1]_vars
    /\ (ts[1].pc = "fetch") ~> (ts[1].pc # "fetch")

\* both fetches have sent: one after its retries ran out of time, the other on
\* a client error
C36_Witness ==
    /\ ts[1].pc = "fetch"
    /\ ts[1].userCall.gaveUp /\ ts[1].userCall.attempts >= 2
    /\ Len(ts[1].userChan) = 1 /\ ~ts[1].userChan[1].Success
    /\ ts[1].templateCall.last = 404 /\ ~ts[1].templateCall.gaveUp
    /\ Len(ts[1].templateChan) = 1

\* the snapshot of the run of request r holds the status
SnapshotIs(r, status) ==
    \E m \in {"", "client error: 404", "no user response received",
              "no template response received", "Invalid user data format",
              "Invalid template format", "failed to publish to queue",
              "failed to create notification"} :
        CacheGet(StatusKey(hs[r].corr)) = StatusJSON(status, m)

\* the row of request r has the status
RowIs(r, status) == r \in DOMAIN rows /\ rows[r].status = status

\* an outcome of the kind is recorded for the run of request r: on the row, as
\* an event or as the snapshot
Recorded(r, status) ==
    RowIs(r, status) \/ CountEvents(r, status) >= 1 \/ SnapshotIs(r, status)

\* C37: one run of EnrichAndPublish reaches at most one terminal outcome: the
\* failure is counted at most once on its row and it has at most one failed
\* event, at most one broker message, and never both a failed and a queued
\* outcome (row status, event or snapshot); UpdateFailure is called only
\* where nothing was recorded before, and from there the run only records the
\* failed event and the failed snapshot and returns; an outcome once
\* recorded is not replaced by the other.
C37_OneTerminalOutcome ==
    /\ [](\A r \in Reqs :
             /\ r \in DOMAIN rows => rows[r].retry_count <= 1
             /\ CountEvents(r, "failed") <= 1
             /\ CountEvents(r, "queued") <= 1
             /\ Len(published[r]) <= 1
             /\ ~(Recorded(r, "failed") /\ Recorded(r, "queued")))
    /\ [][\A r \in Reqs :
             /\ (ts[r].pc # "fail_update" /\ ts'[r].pc = "fail_update")
                   => /\ ~Recorded(r, "failed") /\ ~Recorded(r, "queued")
                      /\ ts[r].pc \in {"fetch", "publish"}
             /\ (ts[r].pc = "fail_update" /\ ts'[r].pc # "fail_update")
                   => ts'[r].pc = "fail_event"
             /\ (ts[r].pc = "fail_event" /\ ts'[r].pc # "fail_event")
                   => ts'[r].pc = "fail_status"
             /\ (ts[r].pc = "fail_status" /\ ts'[r].pc # "fail_status")
                   => ts'[r].pc = "done"
             /\ ts[r].pc = "done" => ts'[r].pc = "done"
             /\ (ts[r].pc \in {"fetch", "publish"} /\ ts'[r].pc # ts[r].pc)
                   => ts'[r].pc \notin {"insert", "created_event", "enriching", "fetch"}
             /\ Recorded(r, "failed") => ~Recorded(r, "queued")'
             /\ Recorded(r, "queued") => ~Recorded(r, "failed")']_vars

\* a run has returned after one failure: the publish failed, the row counts one
\* failure, there is one failed event, the failed snapshot and no message
C37_Witness ==
    /\ ts[1].pc = "done"
    /\ RowIs(1, "failed") /\ rows[1].error_code = "QUEUE_ERROR"
    /\ rows[1].retry_count = 1
    /\ CountEvents(1, "failed") = 1
    /\ SnapshotIs(1, "failed")
    /\ published[1] = <<>>

\* the deliveries the consumer has handled
Handled == {consumer.deliveries[i] : i \in 1..Len(consumer.deliveries)}

\* C38: handleMessage settles every delivery exactly once: it makes one call
\* on the delivery, Nack without requeue when the body does not unmarshal,
\* Nack with requeue when the handler returns an error, Ack when the handler
\* returns nil; no delivery gets both an Ack and a Nack, or neither.
C38_SettledExactlyOnce ==
    /\ \A d \in Handled :
          /\ Len(d.settled) = 1
          /\ ~d.body.json => d.settled[1] = [kind |-> "nack", requeue |-> FALSE]
          /\ (d.body.json /\ d.err # "") => d.settled[1] = [kind |-> "nack", requeue |-> TRUE]
          /\ (d.body.json /\ d.err = "") => d.settled[1] = [kind |-> "ack", requeue |-> FALSE]
    /\ \A json \in BOOLEAN, handlerErr \in {"", "failed to store"} :
          /\ Len(HandleMessage(json, handlerErr)) = 1
          /\ (json /\ handlerErr # "")
                => HandleMessage(json, handlerErr) = <<[kind |-> "nack", requeue |-> TRUE]>>

\* a malformed body was nacked without requeue and a well-formed one acked
C38_Witness ==
    /\ Len(consumer.deliveries) = 2
    /\ ~consumer.deliveries[1].body.json
    /\ consumer.deliveries[1].settled = <<[kind |-> "nack", requeue |-> FALSE]>>
    /\ consumer.deliveries[2].body.json
    /\ consumer.deliveries[2].settled = <<[kind |-> "ack", requeue |-> FALSE]>>

\* C39: ProcessNotification returns nil on every path (no tokens, failed FCM
\* requests, a platform it does not know, a delivery status that could not be
\* stored), so every well-formed message the push service consumes is
\* acknowledged and none is nacked for a requeue.
C39_WellFormedAlwaysAcked ==
    /\ \A d \in Handled :
          /\ d.err = ""
          /\ d.body.json => d.settled = <<[kind |-> "ack", requeue |-> FALSE]>>
          /\ \A i \in 1..Len(d.settled) : ~d.settled[i].requeue
    /\ \A b \in Bodies, fcmEnabled \in BOOLEAN, sendOK \in BOOLEAN, storeOK \in BOOLEAN :
          ProcessNotification(b.tokens, fcmEnabled, sendOK, storeOK).err = ""

\* a message whose FCM request failed and whose status could not be stored
\* was acknowledged, and so was one with a token of an unknown platform
C39_Witness ==
    /\ Len(consumer.deliveries) = 2
    /\ consumer.fcm
    /\ consumer.deliveries[1].body.tokens = <<"android">>
    /\ consumer.deliveries[1].status.failure = 1
    /\ ~consumer.deliveries[1].stored
    /\ consumer.deliveries[1].settled = <<[kind |-> "ack", requeue |-> FALSE]>>
    /\ consumer.deliveries[2].body.tokens = <<"web">>
    /\ consumer.deliveries[2].settled = <<[kind |-> "ack", requeue |-> FALSE]>>
    /\ consumer.status = [total |-> 1, success |-> 0, failure |-> 0]

\* the consumer is to stop: ctx is cancelled, or a delivery channel has closed
\* and reconnection is disabled
Stopping ==
    \/ consumer.ctxDone
    \/ ~consumer.reconnect /\ \E k \in Starts : consumer.msgs[k] = "closed"

\* C40: after ctx is cancelled, or after the delivery channel has closed,
\* every pending call of Consumer.Start eventually returns, also without
\* reconnection and in a Start re-entered after reconnects.
C40_StartReturns ==
    \A k \in Starts :
        (consumer.start[k] = "wait" /\ Stopping) ~> (consumer.start[k] # "wait")

====
